---- MODULE Spec2Model ----
(***************************************************************************)
(* The hdmi_assistant integration: HDMIDataUpdateCoordinator (a poll cycle *)
(* and a write worker sharing one asyncio.Lock), and the entity handlers   *)
(* that enqueue writes and update the coordinator's data optimistically.   *)
(*                                                                         *)
(* asyncio runs one task at a time: a task runs from one await that really *)
(* suspends to the next. Every action below is one such atomic run.        *)
(* The poll cycles of the coordinator run one after the other.             *)
(***************************************************************************)
EXTENDS Integers, Sequences, FiniteSets, TLC

(* ------------------------------ bounds --------------------------------- *)

\* poll cycles started in a run after the first refresh
MaxCycles == 1

\* write requests accepted in a run
MaxWrites == 2

\* changes of the node's number entity a user makes in Home Assistant
MaxSets == 1

\* state_changed events on their way to the node
MaxEvents == 2

\* monitor ids the node may list
Monitors == {0}

\* monitor ids of a node with two displays
TwoMonitors == {0, 1}

(* --------------------------- program constants ------------------------- *)

CONTROLS == <<"brightness", "contrast", "input_source">>

ControlSet == {CONTROLS[i] : i \in 1..Len(CONTROLS)}

NumberControls == {"brightness", "contrast"}

\* number.py lines 44-45: the range the number entities declare
MinValue == 0

MaxValue == 100

\* the pairs whose value the monitor's buttons change, and the values they set
KnobPairs == {<<"brightness", 0>>}

KnobValues == {40, 41}

Pairs == ControlSet \X TwoMonitors

\* what the monitors hold when the node starts (input 0x0f)
InitialValue(ctrl) == IF ctrl = "brightness" THEN 40
                      ELSE IF ctrl = "contrast" THEN 50 ELSE 15

\* values a caller hands to async_set_native_value, in halves (a float with
\* one binary digit): 60.5
NumberInputs == {121}

\* the same with a value above the slider's range: 60.5 and 150.0
AnyNumberInputs == {121, 300}

\* int(value) of a float given in halves: truncation toward zero
IntOf(h) == IF h >= 0 THEN h \div 2 ELSE -((-h) \div 2)

(* ------------------------------ hex keys ------------------------------- *)

HexDigits == <<"0", "1", "2", "3", "4", "5", "6", "7",
               "8", "9", "a", "b", "c", "d", "e", "f">>

RECURSIVE HexStr(_)
\* format(n, "x") for n >= 0
HexStr(n) == IF n < 16 THEN <<HexDigits[n + 1]>>
             ELSE Append(HexStr(n \div 16), HexDigits[(n % 16) + 1])

\* variant: the code formatted without the leading zero
FmtHex(raw) == HexStr(raw)

\* f"{raw:02x}": lowercase hex, zero-padded to two digits
Fmt02x(raw) == IF raw < 16 THEN <<"0">> \o HexStr(raw) ELSE HexStr(raw)

DigitVal(ch) == (CHOOSE i \in 1..16 : HexDigits[i] = ch) - 1

RECURSIVE ParseHex(_)
\* int(hex_key, 16) of a string of lowercase hex digits
ParseHex(s) == IF s = <<>> THEN 0
               ELSE 16 * ParseHex(SubSeq(s, 1, Len(s) - 1)) + DigitVal(s[Len(s)])

\* the option table the node returns for input_source_options
TableFull == (<<"0", "f">> :> "HDMI1") @@ (<<"1", "1">> :> "DisplayPort")

TableEmpty == [k \in {} |-> "none"]

\* a table with another label for the same code
TableOther == (<<"0", "f">> :> "HDMI2")

OptionTables == {TableFull}

\* what the node may answer over time: node line 156 or the {} of line 157
AnyOptionTables == {TableFull, TableOther, TableEmpty}

Labels == {"DisplayPort", "VGA"}

\* labels of every table the node may answer, and one of none
AnyLabels == {"HDMI1", "HDMI2", "DisplayPort", "VGA"}

(* ------------------------------ dicts ---------------------------------- *)

EmptyDict == [k \in {} |-> 0]

\* d[k] = v on a dict
Put(d, k, v) == [x \in (DOMAIN d) \cup {k} |-> IF x = k THEN v ELSE d[x]]

\* the dict without the keys of `keys`
Drop(d, keys) == [x \in (DOMAIN d) \ keys |-> d[x]]

\* {v: k for k, v in opts.items()}: a later key wins for a repeated label
Rev(opts) == [l \in {opts[k] : k \in DOMAIN opts} |->
                 CHOOSE k \in DOMAIN opts : opts[k] = l]

\* coordinator.data["controls"][ctrl].get(mon) is not None, and its value
Has(d, p) == p[2] \in DOMAIN d.controls[p[1]]

Val(d, p) == d.controls[p[1]][p[2]]

\* the data a cycle starts from when the coordinator holds none
EmptyData == [monitors |-> {},
              controls |-> [c \in ControlSet |-> EmptyDict],
              input_source_options |-> EmptyDict]

(* ------------------------------ state ---------------------------------- *)

VARIABLES
    data,                \* coordinator.data (EmptyData while it is None)
    hasData,             \* coordinator.data is not None
    last_exception,      \* coordinator.last_exception: "None" or "err"
    last_update_success, \* DataUpdateCoordinator.last_update_success
    write_queue,         \* coordinator._write_queue
    write_lock,          \* holder of coordinator._write_lock: "none", "poll", "worker"
    lock_waiters,        \* the tasks waiting for _write_lock, first come first
    pollPc,              \* "idle", "lock", "monitors", "opts", "ctrl", "return"
    pdata,               \* the local `data` of _async_update_data
    todo,                \* monitors of the listing not yet finished (the current one included)
    ci,                  \* index in CONTROLS of the control being read
    wPc,                 \* "get", "lock", "post", "sleep"
    wreq,                \* the request the worker holds (NoReq when none)
    numberEntities,      \* monitors with AssistantNumber entities
    selectEntities,      \* monitors with an AssistantInputSelect entity
    nCycles,             \* poll cycles started after the first refresh
    nWrites,             \* write requests accepted
    readOk,              \* pairs read successfully in the running cycle, with the value
    readFail,            \* pairs whose read failed (or was null) in the running cycle, with
                         \* no write request on them since
    latest,              \* per pair, the value of the most recent read or write request
    optVal,              \* per pair, the requested value until a cycle that read the pair returns
    sent,                \* ids of the requests whose transport write has started
    nDone,               \* transport writes finished (ok or failed)
    wfailed,             \* per pair, the value of a failed transport write, until the next
                         \* request on the pair or the return of a cycle that read it
    device,              \* per pair, the value the monitor holds
    ddc,                 \* the brightdock integration: its coordinator, entities, monitors
    selLog,              \* the last call of async_select_option an observer has logged
    hreq,                \* the request a handler has enqueued and not yet shown in the cache
    node                 \* the node: its monitor, its tasks, and Home Assistant's state of its entity

vars == <<data, hasData, last_exception, last_update_success, write_queue, write_lock,
          lock_waiters,
          pollPc, pdata, todo, ci, wPc, wreq, numberEntities, selectEntities,
          nCycles, nWrites, readOk, readFail, latest, optVal, sent, nDone,
          wfailed, device, ddc, selLog, hreq, node>>

\* the state of the hdmi_assistant integration
hdmiVars == <<data, hasData, last_exception, last_update_success, write_queue, write_lock,
              lock_waiters,
              pollPc, pdata, todo, ci, wPc, wreq, numberEntities, selectEntities,
              nCycles, nWrites, readOk, readFail, latest, optVal, sent, nDone,
              wfailed, device, selLog, hreq>>

\* the value a user gives the node's brightness entity in Home Assistant
UserValue == 60

\* the node after init_monitors_and_register: the value was read and posted
NodeInit ==
    [monitor |-> InitialValue("brightness"),   \* what the monitor holds
     ha      |-> InitialValue("brightness"),   \* Home Assistant's state of the entity
     events  |-> <<>>,                         \* state_changed events not yet received
     pollPc  |-> "sleep",                      \* poll_loop: "sleep", "read", "post"
     pollVal |-> 0,                            \* the value poll_loop has read
     wsPc    |-> "listen",                     \* ws_listener: "listen", "write"
     wsVal   |-> 0,                            \* the value ws_listener is writing
     apiPc   |-> "idle",                       \* an HTTP handler: "idle", "get", "set"
     nSets   |-> 0]                            \* changes made by the user

\* no call of async_select_option logged yet
NoCall == [mon |-> 0, option |-> "none", refresh |-> FALSE]

NoReq == [mon |-> 0, control |-> "none", value |-> 0, id |-> 0]

Min(S) == CHOOSE x \in S : \A y \in S : x <= y

\* brightdock coordinator.py line 45-48: the data of a cycle before its reads
DDCEmptyData == [monitors |-> {}, controls |-> [c \in ControlSet |-> EmptyDict]]

\* the brightdock integration after construction: no data, no request in flight
DDCInit ==
    [data |-> DDCEmptyData,     \* coordinator.data; a value is <<v>>, None is <<>>
     has |-> FALSE,             \* coordinator.data is not None
     pc |-> "idle",             \* "idle", "monitors", "ctrl", "return"
     pdata |-> DDCEmptyData,    \* the local `data` of _async_update_data
     todo |-> {},               \* monitors of the listing not yet finished
     ci |-> 0,                  \* index in CONTROLS of the control being read
     failed |-> {},             \* pairs whose read raised or answered null in the running cycle
     entities |-> {},           \* the pairs that have a DDCNumber entity
     posts |-> {},              \* the POSTs of async_set_value in flight: <<pair, value>>
     device |-> [p \in Pairs |-> InitialValue(p[1])],
     nCycles |-> 0,             \* poll cycles started after the first refresh
     nWrites |-> 0]             \* calls of async_set_value

Init ==
    /\ data = EmptyData
    /\ hasData = FALSE
    /\ last_exception = "None"
    /\ last_update_success = TRUE
    /\ write_queue = <<>>
    /\ write_lock = "none"
    /\ lock_waiters = <<>>
    /\ pollPc = "idle"
    /\ pdata = EmptyData
    /\ todo = {}
    /\ ci = 0
    /\ wPc = "get"
    /\ wreq = NoReq
    /\ numberEntities = {}
    /\ selectEntities = {}
    /\ nCycles = 0
    /\ nWrites = 0
    /\ readOk = EmptyDict
    /\ readFail = {}
    /\ latest = EmptyDict
    /\ optVal = EmptyDict
    /\ sent = <<>>
    /\ nDone = 0
    /\ wfailed = EmptyDict
    /\ device = [p \in Pairs |-> InitialValue(p[1])]
    /\ ddc = DDCInit
    /\ selLog = NoCall
    /\ hreq = NoReq
    /\ node = NodeInit

(* --------------------------- the shared lock --------------------------- *)

\* variant: a lock that lets every task in
LockNeverHeld(holder, waiters) == TRUE

\* asyncio.Lock.acquire returns at once only when the lock is free and no task waits
LockFree(holder, waiters) == holder = "none" /\ waiters = <<>>

\* transport requests in flight: the GET of a poll cycle, the POST of the worker
ReadInFlight == pollPc \in {"monitors", "opts", "ctrl"}

WriteInFlight == wPc = "post"

(* ------------------------------ poll cycle ----------------------------- *)

\* variant: every cycle starts from empty data
SnapshotFresh(cur, has) == EmptyData

\* lines 70-75: the cycle's data starts as a deep copy of the coordinator's
Snapshot(cur, has) ==
    LET old == IF has THEN cur ELSE EmptyData
    IN [monitors |-> {},
        controls |-> old.controls,
        input_source_options |-> old.input_source_options]

\* variant: a value already held is not overwritten
MergeReadKeep(d, ctrl, mid, val) ==
    IF mid \in DOMAIN d.controls[ctrl]
      THEN d
      ELSE [d EXCEPT !.controls[ctrl] = Put(d.controls[ctrl], mid, val)]

\* line 111: data["controls"][ctrl][mid] = val
MergeRead(d, ctrl, mid, val) ==
    [d EXCEPT !.controls[ctrl] = Put(d.controls[ctrl], mid, val)]

\* line 97: data["input_source_options"][mid] = opts
MergeOpts(d, mid, opts) ==
    [d EXCEPT !.input_source_options = Put(d.input_source_options, mid, opts)]

\* the monitor the loop of line 87 is at
Mid == Min(todo)

\* select.py async_setup_entry: a select entity per monitor that has options
WithOptions(d) == {m \in d.monitors : m \in DOMAIN d.input_source_options}

\* line 120 and DataUpdateCoordinator: the cycle's data replaces coordinator.data;
\* after the first refresh the platforms register their entities
PollReturn ==
    /\ pollPc = "return"
    /\ data' = pdata
    /\ hasData' = TRUE
    /\ last_update_success' = TRUE
    /\ write_lock' = "none"
    /\ pollPc' = "idle"
    /\ pdata' = EmptyData
    /\ todo' = {}
    /\ ci' = 0
    /\ numberEntities' = IF hasData THEN numberEntities ELSE pdata.monitors
    /\ selectEntities' = IF hasData THEN selectEntities ELSE WithOptions(pdata)
    /\ optVal' = Drop(optVal, DOMAIN readOk)
    /\ wfailed' = Drop(wfailed, DOMAIN readOk)
    /\ readOk' = EmptyDict
    /\ readFail' = {}
    /\ UNCHANGED <<last_exception, write_queue, lock_waiters, wPc, wreq, nCycles, nWrites,
                   latest, sent, nDone, device>>
    /\ UNCHANGED <<ddc, selLog, hreq, node>>

\* variant: the cycle works on the coordinator's own dictionary
ContinueShared ==
    /\ data' = pdata
    /\ UNCHANGED <<hasData, last_update_success, write_lock, numberEntities,
                   selectEntities, optVal, wfailed>>

\* the cycle goes on: nothing is published
Continue ==
    UNCHANGED <<data, hasData, last_update_success, write_lock, numberEntities,
                selectEntities, optVal, wfailed>>

\* lines 63-78: a cycle starts, copies the data and asks for the lock
PollStart ==
    /\ pollPc = "idle"
    /\ hasData => nCycles < MaxCycles
    /\ nCycles' = IF hasData THEN nCycles + 1 ELSE nCycles
    /\ last_exception' = "None"
    /\ pdata' = Snapshot(data, hasData)
    /\ IF LockFree(write_lock, lock_waiters)
         THEN /\ write_lock' = "poll"
              /\ pollPc' = "monitors"
              /\ UNCHANGED lock_waiters
         ELSE /\ pollPc' = "lock"
              /\ lock_waiters' = Append(lock_waiters, "poll")
              /\ UNCHANGED write_lock
    /\ UNCHANGED <<data, hasData, last_update_success, write_queue, todo, ci, wPc, wreq,
                   numberEntities, selectEntities, nWrites, readOk, readFail, latest,
                   optVal, sent, nDone, wfailed, device>>
    /\ UNCHANGED <<ddc, selLog, hreq, node>>

\* line 78: the waiting cycle gets the lock
PollAcquire ==
    /\ pollPc = "lock"
    /\ write_lock = "none"
    /\ Head(lock_waiters) = "poll"
    /\ write_lock' = "poll"
    /\ lock_waiters' = Tail(lock_waiters)
    /\ pollPc' = "monitors"
    /\ UNCHANGED <<data, hasData, last_exception, last_update_success, write_queue,
                   pdata, todo, ci, wPc, wreq, numberEntities, selectEntities, nCycles,
                   nWrites, readOk, readFail, latest, optVal, sent, nDone, wfailed, device>>
    /\ UNCHANGED <<ddc, selLog, hreq, node>>

\* lines 80-87: the listing answers; with an empty list the loop body never runs
PollMonitorsFrom(ids) ==
    /\ pollPc = "monitors"
    /\ \E mons \in SUBSET ids :
         /\ pdata' = [pdata EXCEPT !.monitors = mons]
         /\ todo' = mons
         /\ pollPc' = IF mons = {} THEN "return" ELSE "opts"
    /\ Continue
    /\ UNCHANGED <<last_exception, write_queue, lock_waiters, ci, wPc, wreq, nCycles,
                   nWrites, readOk, readFail, latest, sent, nDone, device>>
    /\ UNCHANGED <<ddc, selLog, hreq, node>>

PollMonitorsOk == PollMonitorsFrom(Monitors)

PollMonitorsTwo == PollMonitorsFrom(TwoMonitors)

\* variant: the data of the failed cycle is published all the same
AfterUpdateFailedPublished(cur, local) == local

\* lines 122-125: the cycle raises UpdateFailed and returns nothing, so that
\* coordinator.data stays the object it was
AfterUpdateFailed(cur, local) == cur

\* variant: the lock stays with the cycle that raised
AfterListingErrorHeld == "poll"

\* lines 78 and 122: the exception leaves the `async with`, which releases the lock
AfterListingError == "none"

\* lines 80-81 and 122-125: the listing fails, the cycle raises UpdateFailed
PollMonitorsFail ==
    /\ pollPc = "monitors"
    /\ data' = AfterUpdateFailed(data, pdata)
    /\ write_lock' = AfterListingError
    /\ last_exception' = "err"
    /\ last_update_success' = FALSE
    /\ pollPc' = "idle"
    /\ pdata' = EmptyData
    /\ UNCHANGED <<hasData, write_queue, lock_waiters, todo, ci, wPc, wreq,
                   numberEntities, selectEntities, nCycles, nWrites, readOk, readFail,
                   latest, optVal, sent, nDone, wfailed, device>>
    /\ UNCHANGED <<ddc, selLog, hreq, node>>

\* lines 91-100: the option table of the monitor, kept when the fetch fails
PollOptsFrom(tables) ==
    /\ pollPc = "opts"
    /\ \/ \E opts \in tables : pdata' = MergeOpts(pdata, Mid, opts)
       \/ UNCHANGED pdata
    /\ pollPc' = "ctrl"
    /\ ci' = 1
    /\ UNCHANGED <<data, hasData, last_exception, last_update_success, write_queue,
                   write_lock, lock_waiters, todo, wPc, wreq, numberEntities,
                   selectEntities, nCycles, nWrites, readOk, readFail, latest, optVal,
                   sent, nDone, wfailed, device>>
    /\ UNCHANGED <<ddc, selLog, hreq, node>>

PollOpts == PollOptsFrom(OptionTables)

PollOptsAny == PollOptsFrom(AnyOptionTables)

\* lines 87 and 103: after the read of CONTROLS[ci] the loops go on, or are over
PollAdvance ==
    /\ IF ci < Len(CONTROLS)
         THEN /\ ci' = ci + 1
              /\ UNCHANGED <<pollPc, todo>>
         ELSE /\ todo' = todo \ {Mid}
              /\ pollPc' = IF todo = {Mid} THEN "return" ELSE "opts"
              /\ ci' = 0
    /\ Continue

\* variant: the node answers what the monitor held when the node started
NodeReadStale(ctrl, mid) == InitialValue(ctrl)

\* node lines 83-88, 254-266: the GET answers what getvcp reports for the monitor
NodeRead(ctrl, mid) == device[<<ctrl, mid>>]

\* lines 105-112: the read answers a value
PollReadOk ==
    /\ pollPc = "ctrl"
    /\ LET ctrl == CONTROLS[ci]
           val == NodeRead(ctrl, Mid)
           ok == Put(readOk, <<ctrl, Mid>>, val)
       IN /\ readOk' = ok
          /\ latest' = Put(latest, <<ctrl, Mid>>, val)
          /\ pdata' = MergeRead(pdata, ctrl, Mid, val)
          /\ PollAdvance
    /\ UNCHANGED <<last_exception, write_queue, lock_waiters, wPc, wreq, nCycles, nWrites,
                   readFail, sent, nDone, device>>
    /\ UNCHANGED <<ddc, selLog, hreq, node>>

\* variant: a failed read blanks the values the cycle holds
KeepPreviousBlank(d, ctrl, mid) ==
    [d EXCEPT !.controls = [c \in ControlSet |-> EmptyDict]]

\* lines 113-118: only log lines follow a failed read, the cycle's data stays as it is
KeepPrevious(d, ctrl, mid) == d

\* lines 105-118: the read fails, or answers null
PollReadFail ==
    /\ pollPc = "ctrl"
    /\ readFail' = readFail \cup {<<CONTROLS[ci], Mid>>}
    /\ pdata' = KeepPrevious(pdata, CONTROLS[ci], Mid)
    /\ PollAdvance
    /\ UNCHANGED <<last_exception, write_queue, lock_waiters, wPc, wreq, nCycles,
                   nWrites, readOk, latest, sent, nDone, device>>
    /\ UNCHANGED <<ddc, selLog, hreq, node>>

\* node lines 254-266: getvcp reports the monitor's own state, which its buttons change
Knob ==
    /\ \E p \in KnobPairs, v \in KnobValues :
         /\ device[p] # v
         /\ device' = [device EXCEPT ![p] = v]
    /\ UNCHANGED <<data, hasData, last_exception, last_update_success, write_queue,
                   write_lock, lock_waiters, pollPc, pdata, todo, ci, wPc, wreq,
                   numberEntities, selectEntities, nCycles, nWrites, readOk, readFail,
                   latest, optVal, sent, nDone, wfailed>>
    /\ UNCHANGED <<ddc, selLog, hreq, node>>

(* ------------------------------ write worker --------------------------- *)

PairOf(req) == <<req.control, req.mon>>

\* variant: a queue of one place, a request that finds it full is dropped
EnqueueBounded(q, req) == IF Len(q) >= 1 THEN q ELSE Append(q, req)

\* lines 30 and 129: put_nowait on a queue made without maxsize
Enqueue(q, req) == Append(q, req)

\* variant: the newest request is handed out
NextRequestNewest(q) == q[Len(q)]

\* line 47: _write_queue.get hands out the oldest request
NextRequest(q) == Head(q)

\* variant: the request stays in the queue
DequeueKept(q) == q

\* line 47: get() removes the request it hands out
Dequeue(q) == Tail(q)

\* lines 46-53: the loop takes the next request, if any, and asks for the lock;
\* `holder` is the lock's holder once the worker has released what it held
WorkerLoop(holder) ==
    IF write_queue = <<>>
      THEN /\ wPc' = "get"
           /\ wreq' = NoReq
           /\ write_lock' = holder
           /\ UNCHANGED <<write_queue, lock_waiters, sent>>
      ELSE /\ wreq' = NextRequest(write_queue)
           /\ write_queue' = Dequeue(write_queue)
           /\ IF LockFree(holder, lock_waiters)
                THEN /\ write_lock' = "worker"
                     /\ wPc' = "post"
                     /\ sent' = Append(sent, NextRequest(write_queue).id)
                     /\ UNCHANGED lock_waiters
                ELSE /\ write_lock' = holder
                     /\ wPc' = "lock"
                     /\ lock_waiters' = Append(lock_waiters, "worker")
                     /\ UNCHANGED sent

\* line 47: the worker wakes from get() with a request in the queue
WorkerGet ==
    /\ wPc = "get"
    /\ write_queue # <<>>
    /\ WorkerLoop(write_lock)
    /\ UNCHANGED <<data, hasData, last_exception, last_update_success, pollPc, pdata,
                   todo, ci, numberEntities, selectEntities, nCycles, nWrites, readOk,
                   readFail, latest, optVal, nDone, wfailed, device>>
    /\ UNCHANGED <<ddc, selLog, hreq, node>>

\* line 49: the waiting worker gets the lock and starts the POST
WorkerAcquire ==
    /\ wPc = "lock"
    /\ write_lock = "none"
    /\ Head(lock_waiters) = "worker"
    /\ write_lock' = "worker"
    /\ lock_waiters' = Tail(lock_waiters)
    /\ wPc' = "post"
    /\ sent' = Append(sent, wreq.id)
    /\ UNCHANGED <<data, hasData, last_exception, last_update_success, write_queue,
                   pollPc, pdata, todo, ci, wreq, numberEntities, selectEntities, nCycles,
                   nWrites, readOk, readFail, latest, optVal, nDone, wfailed, device>>
    /\ UNCHANGED <<ddc, selLog, hreq, node>>

\* node lines 93-100, 269-275: setvcp sets the value; write_vcp swallows a failure of
\* ddcutil, so the node answers 200 either way
NodeWrite(dev, req) == {[dev EXCEPT ![PairOf(req)] = req.value], dev}

\* lines 53-57: the POST succeeded; the worker sleeps 0.05 s with the lock held
WorkerPostOk ==
    /\ wPc = "post"
    /\ wPc' = "sleep"
    /\ device' \in NodeWrite(device, wreq)
    /\ UNCHANGED <<data, hasData, last_exception, last_update_success, write_queue,
                   write_lock, lock_waiters, pollPc, pdata, todo, ci, wreq,
                   numberEntities, selectEntities, nCycles, nWrites, readOk, readFail,
                   latest, optVal, sent, nDone, wfailed>>
    /\ UNCHANGED <<ddc, selLog, hreq, node>>

\* variant: the lock stays with the worker when the POST raises
AfterWriteErrorHeld == "worker"

\* lines 49 and 58-59: the exception leaves the `async with`, which releases the lock
AfterWriteError == "none"

\* lines 53-54 and 58-61: the POST failed (the request did not reach setvcp); the
\* lock is released, the request dropped
WorkerPostFail ==
    /\ wPc = "post"
    /\ nDone' = nDone + 1
    /\ wfailed' = Put(wfailed, PairOf(wreq), wreq.value)
    /\ WorkerLoop(AfterWriteError)
    /\ UNCHANGED <<data, hasData, last_exception, last_update_success, pollPc, pdata,
                   todo, ci, numberEntities, selectEntities, nCycles, nWrites, readOk,
                   readFail, latest, optVal, device>>
    /\ UNCHANGED <<ddc, selLog, hreq, node>>

\* variant: the lock stays with the worker after the settle delay
AfterSettleHeld == "worker"

\* lines 49 and 57: the `async with` ends after the sleep, which releases the lock
AfterSettle == "none"

\* lines 57-61: the settle delay is over; the lock is released
WorkerSleepDone ==
    /\ wPc = "sleep"
    /\ nDone' = nDone + 1
    /\ WorkerLoop(AfterSettle)
    /\ UNCHANGED <<data, hasData, last_exception, last_update_success, pollPc, pdata,
                   todo, ci, numberEntities, selectEntities, nCycles, nWrites, readOk,
                   readFail, latest, optVal, wfailed, device>>
    /\ UNCHANGED <<ddc, selLog, hreq, node>>

(* ---------------------------- entity handlers -------------------------- *)

\* variant: the handler leaves coordinator.data alone
OptimisticUpdateSkipped(d, ctrl, mon, val) == d

\* number.py line 66, select.py line 65: the optimistic update of coordinator.data
OptimisticUpdate(d, ctrl, mon, val) ==
    [d EXCEPT !.controls[ctrl] = Put(d.controls[ctrl], mon, val)]

\* the part of both handlers from enqueue_write to the optimistic update
RequestWrite(mon, ctrl, val) ==
    /\ nWrites' = nWrites + 1
    /\ write_queue' = Enqueue(write_queue,
                              [mon |-> mon, control |-> ctrl, value |-> val,
                               id |-> nWrites + 1])
    /\ data' = OptimisticUpdate(data, ctrl, mon, val)
    /\ latest' = Put(latest, <<ctrl, mon>>, val)
    /\ optVal' = Put(optVal, <<ctrl, mon>>, val)
    /\ wfailed' = Drop(wfailed, {<<ctrl, mon>>})
    /\ readFail' = readFail \ {<<ctrl, mon>>}

\* number.py lines 59-67: AssistantNumber.async_set_native_value up to its first await
SetNativeValueFrom(inputs) ==
    /\ nWrites < MaxWrites
    /\ \E mon \in numberEntities, ctrl \in NumberControls, value \in inputs :
         RequestWrite(mon, ctrl, IntOf(value))
    /\ UNCHANGED <<hasData, last_exception, last_update_success, write_lock, lock_waiters,
                   pollPc, pdata, todo, ci, wPc, wreq, numberEntities, selectEntities,
                   nCycles, readOk, sent, nDone, device>>
    /\ UNCHANGED <<ddc, selLog, hreq, node>>

SetNativeValue == SetNativeValueFrom(NumberInputs)

\* variant: enqueue_write awaits, and other tasks run before the handler goes on
EventLoopTurnAny == TRUE

\* number.py lines 62-66, select.py lines 62-65: there is no await between
\* enqueue_write and the optimistic update, so no other task of the event loop
\* runs while a handler is between the two
EventLoopTurn == hreq = NoReq

\* number.py line 62, coordinator.py lines 127-129: enqueue_write, a put_nowait
SetNativeValueEnqueue ==
    /\ hreq = NoReq
    /\ nWrites < MaxWrites
    /\ \E mon \in numberEntities, ctrl \in NumberControls, value \in NumberInputs :
         LET req == [mon |-> mon, control |-> ctrl, value |-> IntOf(value),
                     id |-> nWrites + 1]
         IN /\ write_queue' = Enqueue(write_queue, req)
            /\ hreq' = req
    /\ nWrites' = nWrites + 1
    /\ UNCHANGED <<data, hasData, last_exception, last_update_success, write_lock,
                   lock_waiters, pollPc, pdata, todo, ci, wPc, wreq, numberEntities,
                   selectEntities, nCycles, readOk, readFail, latest, optVal, sent,
                   nDone, wfailed, device>>
    /\ UNCHANGED <<ddc, selLog, node>>

\* number.py line 66: the optimistic update of the request just enqueued
SetNativeValueApply ==
    /\ hreq # NoReq
    /\ data' = OptimisticUpdate(data, hreq.control, hreq.mon, hreq.value)
    /\ latest' = Put(latest, PairOf(hreq), hreq.value)
    /\ optVal' = Put(optVal, PairOf(hreq), hreq.value)
    /\ wfailed' = Drop(wfailed, {PairOf(hreq)})
    /\ readFail' = readFail \ {PairOf(hreq)}
    /\ hreq' = NoReq
    /\ UNCHANGED <<hasData, last_exception, last_update_success, write_queue, write_lock,
                   lock_waiters, pollPc, pdata, todo, ci, wPc, wreq, numberEntities,
                   selectEntities, nCycles, nWrites, readOk, sent, nDone, device>>
    /\ UNCHANGED <<ddc, selLog, node>>

SetNativeValueAny == SetNativeValueFrom(AnyNumberInputs)

\* variant: a label that is not in the table falls back to the first key
OptionKeyDefault(d, mon, option) ==
    LET opts == IF mon \in DOMAIN d.input_source_options
                  THEN d.input_source_options[mon] ELSE TableEmpty
        rev == Rev(opts)
    IN IF option \in DOMAIN rev THEN <<rev[option]>>
       ELSE IF DOMAIN opts # {} THEN <<CHOOSE k \in DOMAIN opts : TRUE>> ELSE <<>>

\* select.py lines 52-54: the table of the monitor, reversed, looked up
OptionKey(d, mon, option) ==
    LET opts == IF mon \in DOMAIN d.input_source_options
                  THEN d.input_source_options[mon] ELSE TableEmpty
        rev == Rev(opts)
    IN IF option \in DOMAIN rev THEN <<rev[option]>> ELSE <<>>

\* select.py lines 55-66: an unknown label returns at line 57, a known one is
\* enqueued and shown
SelectCall(mon, option) ==
    LET key == OptionKey(data, mon, option) IN
    IF key = <<>>
      THEN UNCHANGED <<data, write_queue, nWrites, latest, optVal, wfailed, readFail>>
      ELSE RequestWrite(mon, "input_source", ParseHex(key[1]))

\* select.py lines 55-69: async_request_refresh is reached only past line 57
RefreshAsked(d, mon, option) == OptionKey(d, mon, option) # <<>>

\* select.py lines 50-66: AssistantInputSelect.async_select_option up to its first await
SelectOption ==
    /\ nWrites < MaxWrites
    /\ \E mon \in selectEntities, option \in Labels : SelectCall(mon, option)
    /\ UNCHANGED <<hasData, last_exception, last_update_success, write_lock, lock_waiters,
                   pollPc, pdata, todo, ci, wPc, wreq, numberEntities, selectEntities,
                   nCycles, readOk, sent, nDone, device>>
    /\ UNCHANGED <<ddc, selLog, hreq, node>>

\* the same call with any label a caller may pass, logged by an observer
SelectOptionLogged ==
    /\ nWrites < MaxWrites
    /\ \E mon \in selectEntities, option \in AnyLabels :
         /\ SelectCall(mon, option)
         /\ selLog' = [mon |-> mon, option |-> option,
                        refresh |-> RefreshAsked(data, mon, option)]
    /\ UNCHANGED <<hasData, last_exception, last_update_success, write_lock, lock_waiters,
                   pollPc, pdata, todo, ci, wPc, wreq, numberEntities, selectEntities,
                   nCycles, readOk, sent, nDone, device>>
    /\ UNCHANGED <<ddc, hreq, node>>

(* ------------------------------ read path ----------------------------- *)

\* variant: a read that takes the lock first
ReadReadyLocked(holder, waiters) == holder = "none" /\ waiters = <<>>

\* number.py 50-57, select.py 42-48, sensor.py 52-59: plain properties, no await
\* and no lock: they run whatever the lock's state
ReadReady(holder, waiters) == TRUE

\* number.py lines 50-57: the cached value, <<>> for None
NativeValue(d, ctrl, mon) ==
    IF Has(d, <<ctrl, mon>>) THEN <<Val(d, <<ctrl, mon>>)>> ELSE <<>>

\* select.py lines 42-48: the label of the cached input, <<>> for None
CurrentOption(d, mon) ==
    IF ~Has(d, <<"input_source", mon>>)
      THEN <<>>
      ELSE LET key == Fmt02x(Val(d, <<"input_source", mon>>))
               opts == IF mon \in DOMAIN d.input_source_options
                         THEN d.input_source_options[mon] ELSE TableEmpty
           IN IF key \in DOMAIN opts THEN <<opts[key]>> ELSE <<>>

\* sensor.py lines 52-59: the connection sensor's state
ConnectionState ==
    IF last_update_success THEN "connected"
    ELSE IF last_exception = "None" THEN "error: unknown" ELSE "error: err"

\* an observer reads a number entity; nothing changes
ReadValue ==
    /\ ReadReady(write_lock, lock_waiters)
    /\ \E mon \in numberEntities, ctrl \in NumberControls :
          Len(NativeValue(data, ctrl, mon)) <= 1
    /\ UNCHANGED vars

\* an observer reads a select entity; nothing changes
ReadOption ==
    /\ ReadReady(write_lock, lock_waiters)
    /\ \E mon \in selectEntities : Len(CurrentOption(data, mon)) <= 1
    /\ UNCHANGED vars

\* an observer reads the connection sensor; nothing changes
ReadStatus ==
    /\ ReadReady(write_lock, lock_waiters)
    /\ ConnectionState \in {"connected", "error: unknown", "error: err"}
    /\ UNCHANGED vars

(* ------------------------ brightdock integration ----------------------- *)

\* brightdock number.py lines 47-50: DDCNumber.value, <<>> for None or no entry
DDCValue(d, p) == IF p[2] \in DOMAIN d.controls[p[1]] THEN d.controls[p[1]][p[2]] ELSE <<>>

\* brightdock coordinator.py lines 45-48: the cycle's data starts with the listing
\* and an empty dict per control
DDCFreshData(mons) == [monitors |-> mons, controls |-> [c \in ControlSet |-> EmptyDict]]

\* brightdock coordinator.py line 59: data["controls"][ctrl][mid] = val
DDCMerge(d, ctrl, mid, val) ==
    [d EXCEPT !.controls[ctrl] = Put(d.controls[ctrl], mid, val)]

\* GETs of the brightdock poll cycle and POSTs of its entities in flight
DDCReadInFlight == ddc.pc \in {"monitors", "ctrl"}

DDCWriteInFlight == ddc.posts # {}

\* brightdock coordinator.py lines 36-41: a cycle starts with the listing request
DDCPollStart ==
    /\ ddc.pc = "idle"
    /\ ddc.has => ddc.nCycles < MaxCycles
    /\ ddc' = [ddc EXCEPT !.pc = "monitors",
                          !.nCycles = IF ddc.has THEN @ + 1 ELSE @]
    /\ UNCHANGED <<hdmiVars, node>>

\* lines 40-48: the listing answers
DDCMonitorsOk ==
    /\ ddc.pc = "monitors"
    /\ \E mons \in SUBSET Monitors :
         ddc' = [ddc EXCEPT !.pdata = DDCFreshData(mons),
                            !.todo = mons,
                            !.ci = IF mons = {} THEN 0 ELSE 1,
                            !.pc = IF mons = {} THEN "return" ELSE "ctrl"]
    /\ UNCHANGED <<hdmiVars, node>>

\* lines 40-41 and 73-75: the listing fails, the cycle raises UpdateFailed
DDCMonitorsFail ==
    /\ ddc.pc = "monitors"
    /\ ddc' = [ddc EXCEPT !.pc = "idle"]
    /\ UNCHANGED <<hdmiVars, node>>

\* lines 51-53: after the read of CONTROLS[ci] the loops go on, or are over
DDCAdvance(d) ==
    LET mid == Min(d.todo)
    IN IF d.ci < Len(CONTROLS)
         THEN [d EXCEPT !.ci = @ + 1]
         ELSE [d EXCEPT !.todo = @ \ {mid},
                        !.ci = IF d.todo = {mid} THEN 0 ELSE 1,
                        !.pc = IF d.todo = {mid} THEN "return" ELSE "ctrl"]

\* lines 55-59: the read answers a value, or null when getvcp failed on the node
\* (core lines 250-257 answer None for it); either is stored
DDCReadOk ==
    /\ ddc.pc = "ctrl"
    /\ LET ctrl == CONTROLS[ddc.ci]
           mid == Min(ddc.todo)
       IN \E val \in {<<ddc.device[<<ctrl, mid>>]>>, <<>>} :
            ddc' = DDCAdvance([ddc EXCEPT
                       !.pdata = DDCMerge(ddc.pdata, ctrl, mid, val),
                       !.failed = IF val = <<>> THEN @ \cup {<<ctrl, mid>>} ELSE @])
    /\ UNCHANGED <<hdmiVars, node>>

\* lines 64-68: the read raises: nothing is stored for the pair
DDCReadFail ==
    /\ ddc.pc = "ctrl"
    /\ ddc' = DDCAdvance([ddc EXCEPT
                  !.failed = @ \cup {<<CONTROLS[ddc.ci], Min(ddc.todo)>>}])
    /\ UNCHANGED <<hdmiVars, node>>

\* line 70 and DataUpdateCoordinator: the cycle's data replaces coordinator.data;
\* brightdock number.py lines 9-19: after the first refresh an entity per stored pair
DDCReturn ==
    /\ ddc.pc = "return"
    /\ ddc' = [ddc EXCEPT
                 !.data = ddc.pdata,
                 !.has = TRUE,
                 !.pc = "idle",
                 !.pdata = DDCEmptyData,
                 !.failed = {},
                 !.entities = IF ddc.has THEN @
                              ELSE {p \in Pairs : p[2] \in DOMAIN ddc.pdata.controls[p[1]]}]
    /\ UNCHANGED <<hdmiVars, node>>

\* brightdock number.py lines 52-63: async_set_value sends the POST itself
DDCSetValueStart ==
    /\ ddc.nWrites < MaxWrites
    /\ \E p \in ddc.entities, value \in NumberInputs :
         /\ \A q \in ddc.posts : q[1] # p
         /\ ddc' = [ddc EXCEPT !.posts = @ \cup {<<p, IntOf(value)>>},
                               !.nWrites = @ + 1]
    /\ UNCHANGED <<hdmiVars, node>>

\* brightdock number.py lines 60-64, core lines 106-114 and 259-265: the POST is
\* over; the monitor took the value, or did not (a failure of setvcp is swallowed,
\* a failed POST raises)
DDCSetValueEnd ==
    /\ \E q \in ddc.posts :
         \E dev \in {[ddc.device EXCEPT ![q[1]] = q[2]], ddc.device} :
            ddc' = [ddc EXCEPT !.posts = @ \ {q}, !.device = dev]
    /\ UNCHANGED <<hdmiVars, node>>

(* ------------------------- hdmi-assistant-node ------------------------- *)

\* node lines 200-205: every read_vcp and write_vcp runs ddcutil as a subprocess
\* of its own; this counts the subprocesses that are running
BusCommands(n) ==
    (IF n.pollPc = "read" THEN 1 ELSE 0)
      + (IF n.wsPc = "write" THEN 1 ELSE 0)
      + (IF n.apiPc \in {"get", "set"} THEN 1 ELSE 0)

\* Home Assistant sets the state and emits state_changed when the state changed
HaSet(n, val) ==
    [n EXCEPT !.ha = val,
              !.events = IF val # n.ha THEN Append(n.events, val) ELSE n.events]

\* node lines 399-407: poll_loop wakes and starts read_vcp
PollLoopRead ==
    /\ node.pollPc = "sleep"
    /\ node' = [node EXCEPT !.pollPc = "read"]
    /\ UNCHANGED <<hdmiVars, ddc>>

\* node lines 254-266 and 407-409: getvcp answers the monitor's value, or fails
\* and the feature is skipped
PollLoopReadDone ==
    /\ node.pollPc = "read"
    /\ \/ node' = [node EXCEPT !.pollPc = "post", !.pollVal = node.monitor]
       \/ node' = [node EXCEPT !.pollPc = "sleep"]
    /\ UNCHANGED <<hdmiVars, ddc>>

\* node lines 280-291 and 418-419: post_state hands the value read to Home Assistant
PollLoopPost ==
    /\ node.pollPc = "post"
    /\ Len(node.events) < MaxEvents
    /\ node' = [HaSet(node, node.pollVal) EXCEPT !.pollPc = "sleep", !.pollVal = 0]
    /\ UNCHANGED <<hdmiVars, ddc>>

\* a user changes the number entity in Home Assistant
UserSetsNumber ==
    /\ node.nSets < MaxSets
    /\ Len(node.events) < MaxEvents
    /\ node' = [HaSet(node, UserValue) EXCEPT !.nSets = node.nSets + 1]
    /\ UNCHANGED <<hdmiVars, ddc>>

\* node lines 364-394: ws_listener receives a state_changed of its number entity
\* and starts write_vcp with the new state
WsEvent ==
    /\ node.wsPc = "listen"
    /\ node.events # <<>>
    /\ node' = [node EXCEPT !.wsPc = "write", !.wsVal = Head(node.events),
                            !.events = Tail(node.events)]
    /\ UNCHANGED <<hdmiVars, ddc>>

\* node lines 269-275: setvcp has set the monitor, or failed and was logged
WsWriteDone ==
    /\ node.wsPc = "write"
    /\ \/ node' = [node EXCEPT !.wsPc = "listen", !.wsVal = 0, !.monitor = node.wsVal]
       \/ node' = [node EXCEPT !.wsPc = "listen", !.wsVal = 0]
    /\ UNCHANGED <<hdmiVars, ddc>>

\* node lines 83-87: api_get_brightness starts read_vcp
ApiGet ==
    /\ node.apiPc = "idle"
    /\ node' = [node EXCEPT !.apiPc = "get"]
    /\ UNCHANGED <<hdmiVars, ddc>>

\* node lines 93-99: api_set_brightness starts write_vcp
ApiSet ==
    /\ node.apiPc = "idle"
    /\ node' = [node EXCEPT !.apiPc = "set"]
    /\ UNCHANGED <<hdmiVars, ddc>>

\* node lines 87-91 and 99-101: the handler's ddcutil command is over; a write
\* has set the monitor to the value the user asked for
ApiDone ==
    /\ node.apiPc \in {"get", "set"}
    /\ node' = [node EXCEPT !.apiPc = "idle",
                            !.monitor = IF node.apiPc = "set" THEN UserValue
                                        ELSE node.monitor]
    /\ UNCHANGED <<hdmiVars, ddc>>

(* ------------------------------ behaviours ----------------------------- *)

Next ==
    \/ PollStart
    \/ PollAcquire
    \/ PollMonitorsOk
    \/ PollMonitorsFail
    \/ PollOpts
    \/ PollReadOk
    \/ PollReadFail
    \/ PollReturn
    \/ WorkerGet
    \/ WorkerAcquire
    \/ WorkerPostOk
    \/ WorkerPostFail
    \/ WorkerSleepDone
    \/ SetNativeValue
    \/ SelectOption
    \/ ReadValue
    \/ ReadOption
    \/ ReadStatus

Spec == Init /\ [][Next]_vars

PollSteps ==
    \/ PollStart
    \/ PollAcquire
    \/ PollMonitorsFail
    \/ PollOpts
    \/ PollReadOk
    \/ PollReadFail
    \/ PollReturn

WorkerSteps ==
    \/ WorkerGet
    \/ WorkerAcquire
    \/ WorkerPostOk
    \/ WorkerPostFail
    \/ WorkerSleepDone

\* every transport request ends, and the event loop runs every task that is ready;
\* when a cycle starts and when a caller makes a request is left open
Fairness ==
    /\ WF_vars(PollAcquire)
    /\ WF_vars(PollMonitorsOk \/ PollMonitorsFail)
    /\ WF_vars(PollOpts)
    /\ WF_vars(PollReadOk \/ PollReadFail)
    /\ WF_vars(PollReturn)
    /\ WF_vars(WorkerGet)
    /\ WF_vars(WorkerAcquire)
    /\ WF_vars(WorkerPostOk \/ WorkerPostFail)
    /\ WF_vars(WorkerSleepDone)

\* the poller, the worker and the number entities, under fairness
NextFair ==
    \/ PollSteps
    \/ PollMonitorsOk
    \/ WorkerSteps
    \/ SetNativeValue

SpecFair == Init /\ [][NextFair]_vars /\ Fairness

\* lines 38 and 63-78: the update interval starts a cycle again and again; the
\* cycles past MaxCycles are not counted
PollTick ==
    /\ pollPc = "idle"
    /\ hasData
    /\ nCycles >= MaxCycles
    /\ last_exception' = "None"
    /\ pdata' = Snapshot(data, hasData)
    /\ IF LockFree(write_lock, lock_waiters)
         THEN /\ write_lock' = "poll"
              /\ pollPc' = "monitors"
              /\ UNCHANGED lock_waiters
         ELSE /\ pollPc' = "lock"
              /\ lock_waiters' = Append(lock_waiters, "poll")
              /\ UNCHANGED write_lock
    /\ UNCHANGED <<data, hasData, last_update_success, write_queue, todo, ci, wPc, wreq,
                   numberEntities, selectEntities, nCycles, nWrites, readOk, readFail,
                   latest, optVal, sent, nDone, wfailed, device>>
    /\ UNCHANGED <<ddc, selLog, hreq, node>>

\* the poller running for ever, the worker and the number entities
NextForever ==
    \/ NextFair
    \/ PollTick

\* line 38: the timer of the update interval fires; every transport request ends
SpecForever ==
    /\ Init /\ [][NextForever]_vars
    /\ Fairness
    /\ WF_vars(PollStart \/ PollTick)

\* the handler in its two statements, between the tasks of the event loop
TaskTurn ==
    /\ EventLoopTurn
    /\ \/ PollSteps
       \/ PollMonitorsOk
       \/ WorkerSteps

NextSteps ==
    \/ TaskTurn
    \/ SetNativeValueEnqueue
    \/ SetNativeValueApply

SpecSteps == Init /\ [][NextSteps]_vars

\* polls alone, two monitors, the monitors' values changing under them
NextPoll ==
    \/ PollStart
    \/ PollMonitorsTwo
    \/ PollMonitorsFail
    \/ PollOpts
    \/ PollReadOk
    \/ PollReadFail
    \/ PollReturn
    \/ Knob

SpecPoll == Init /\ [][NextPoll]_vars

\* polls alone, one monitor, the node's option answers changing over time
NextOpts ==
    \/ PollStart
    \/ PollMonitorsOk
    \/ PollMonitorsFail
    \/ PollOptsAny
    \/ PollReadOk
    \/ PollReadFail
    \/ PollReturn

SpecOpts == Init /\ [][NextOpts]_vars

\* the brightdock integration: its poll cycle and its number entities
NextDDC ==
    \/ DDCPollStart
    \/ DDCMonitorsOk
    \/ DDCMonitorsFail
    \/ DDCReadOk
    \/ DDCReadFail
    \/ DDCReturn
    \/ DDCSetValueStart
    \/ DDCSetValueEnd

SpecDDC == Init /\ [][NextDDC]_vars

\* the node: poll_loop, ws_listener, an HTTP handler, and the user
NextNode ==
    \/ PollLoopRead
    \/ PollLoopReadDone
    \/ PollLoopPost
    \/ UserSetsNumber
    \/ WsEvent
    \/ WsWriteDone
    \/ ApiGet
    \/ ApiSet
    \/ ApiDone

SpecNode == Init /\ [][NextNode]_vars

\* polls with changing option answers, and select calls with any label
NextSelect ==
    \/ PollStart
    \/ PollMonitorsOk
    \/ PollMonitorsFail
    \/ PollOptsAny
    \/ PollReadOk
    \/ PollReadFail
    \/ PollReturn
    \/ SelectOptionLogged

SpecSelect == Init /\ [][NextSelect]_vars

\* callers may hand any number to the number entities
NextAny ==
    \/ PollSteps
    \/ PollMonitorsOk
    \/ WorkerSteps
    \/ SetNativeValueAny
    \/ SelectOption

SpecAny == Init /\ [][NextAny]_vars

(* ------------------------------- claims -------------------------------- *)

Last(q) == q[Len(q)]

\* transport writes started and not yet finished (the settle delay included)
WritesOpen == Len(sent) - nDone

\* C1: at most one transport request is in flight: never a GET of a poll cycle
\* together with a POST of the worker, and never two POSTs of the worker.
C1_OneRequestInFlight ==
    /\ ~(ReadInFlight /\ WriteInFlight)
    /\ WritesOpen \in {0, 1}
    /\ WriteInFlight => WritesOpen = 1

\* a POST is in flight while a poll cycle waits for the lock
C1_Witness == WriteInFlight /\ pollPc = "lock"

\* C2: the step that accepts a write request (d, c, v) leaves the cache of (d, c)
\* at v, whoever holds the lock and before the worker has taken the request.
C2_OptimisticAtOnce ==
    [][nWrites' = nWrites + 1 =>
         LET r == Last(write_queue')
         IN /\ Has(data', PairOf(r))
            /\ Val(data', PairOf(r)) = r.value]_vars

\* a request sits in the queue, its value cached, while a poll cycle holds the lock
C2_Witness ==
    /\ write_queue # <<>>
    /\ write_lock = "poll"
    /\ Has(data, PairOf(Last(write_queue)))
    /\ Val(data, PairOf(Last(write_queue))) = Last(write_queue).value
    /\ Last(write_queue).id = nWrites

\* C3: the transport writes start in the order of enqueue_write (ids count the
\* calls), and a write starts only when every earlier one has finished.
C3_WritesInOrder ==
    /\ \A i \in 1..Len(sent) : sent[i] = i
    /\ WriteInFlight => nDone = Len(sent) - 1

\* two writes were sent, around a poll cycle
C3_Witness == Len(sent) = 2 /\ nCycles = 1 /\ WriteInFlight

\* the step in which a finished cycle hands its data to the coordinator
Returns == pollPc = "return" /\ pollPc' = "idle"

\* the cache entry of a pair is the same in both dictionaries
SameEntry(d, e, p) == (Has(d, p) <=> Has(e, p)) /\ (Has(d, p) => Val(d, p) = Val(e, p))

\* C4: a poll cycle whose read of (d, c) failed does not change an integer the
\* cache holds for (d, c), and does not make it unknown.
C4_FailedReadKeepsEntry ==
    [][Returns =>
         \A p \in readFail :
            Has(data, p) => Has(data', p) /\ Val(data', p) = Val(data, p)]_vars

\* C5: a failed read changes nothing the cycle holds and the cycle goes on; when
\* the cycle returns, every listed pair was read or failed, every pair read has
\* its new value in the cache and every other pair is as it was.
C5_FailureIsLocal ==
    [][/\ (pollPc = "ctrl" /\ readFail' # readFail) =>
             pdata' = pdata /\ pollPc' \in {"ctrl", "opts", "return"}
       /\ (Returns /\ readFail # {}) =>
             /\ DOMAIN readOk \cup readFail = ControlSet \X pdata.monitors
             /\ \A p \in DOMAIN readOk : Has(data', p) /\ Val(data', p) = readOk[p]
             /\ \A p \in Pairs \ DOMAIN readOk : SameEntry(data', data, p)]_vars

\* a cycle over two monitors is about to return with reads that failed on pairs
\* the cache holds, and reads that succeeded
C5_Witness ==
    /\ pollPc = "return"
    /\ pdata.monitors = TwoMonitors
    /\ readOk # EmptyDict
    /\ \E p \in readFail : Has(data, p)

\* C6: with no write request, between poll cycles the cache of every pair is the
\* value of the most recent successful read, and unknown if no read succeeded.
C6_CacheIsLastRead ==
    (nWrites = 0 /\ pollPc = "idle" /\ hasData) =>
        \A p \in Pairs :
           IF p \in DOMAIN latest
             THEN Has(data, p) /\ Val(data, p) = latest[p]
             ELSE ~Has(data, p)

\* after two cycles the cache holds a second reading that the monitor has left
\* again, next to a pair that was never read
C6_Witness ==
    /\ pollPc = "idle"
    /\ nCycles = 1
    /\ Has(data, <<"brightness", 0>>)
    /\ Val(data, <<"brightness", 0>>) = 41
    /\ device[<<"brightness", 0>>] = 40
    /\ \E p \in Pairs : ~Has(data, p)
    /\ \E p \in Pairs : Has(data, p) /\ p[2] \notin data.monitors

\* C7: a request left the optimistic value v' on (d, c) and the cycle then failed
\* to read (d, c): when the cycle returns, the cache of (d, c) is still v'.
C7_OptimisticSurvivesFailedRead ==
    [][Returns =>
         \A p \in readFail \cap DOMAIN optVal :
            Has(data', p) /\ Val(data', p) = optVal[p]]_vars

\* C8: between poll cycles a cached value is the value of the most recent
\* successful read of, or request on, its pair.
C8_CacheIsLatestEvent ==
    pollPc = "idle" =>
        \A p \in Pairs : Has(data, p) => p \in DOMAIN latest /\ Val(data, p) = latest[p]

\* C9: the write of a request failed, no request on its pair followed, and a
\* cycle read a different value v2 for the pair: the cache is v2 when the cycle
\* returns.
C9_FailedWriteReconciled ==
    [][Returns =>
         \A p \in DOMAIN wfailed \cap DOMAIN readOk :
            readOk[p] # wfailed[p] => Has(data', p) /\ Val(data', p) = readOk[p]]_vars

\* a cycle is about to return a reading that differs from the value of a failed
\* write, which the cache still shows
C9_Witness ==
    /\ pollPc = "return"
    /\ \E p \in DOMAIN wfailed \cap DOMAIN readOk :
          /\ readOk[p] # wfailed[p]
          /\ Has(data, p)
          /\ Val(data, p) = wfailed[p]

\* C10: no brightness or contrast value outside MinValue..MaxValue is put on
\* the write queue or into the cache.
C10_OutOfRangeRejected ==
    /\ \A i \in DOMAIN write_queue :
          write_queue[i].control \in NumberControls =>
             write_queue[i].value \in MinValue..MaxValue
    /\ \A p \in Pairs :
          (p[1] \in NumberControls /\ Has(data, p)) => Val(data, p) \in MinValue..MaxValue

\* the step in which the listing of a cycle fails
ListingFails == pollPc = "monitors" /\ pollPc' = "idle"

\* C11: when the listing of a cycle fails, the cycle is reported as failed, the
\* error is stored, and the cache is left alone: the device list and the option
\* tables are those of the cycle's start, and so is every control value that no
\* write request has set since.
C11_FailedListingKeepsCache ==
    [][ListingFails =>
         /\ last_update_success' = FALSE
         /\ last_exception' = "err"
         /\ data' = data
         /\ hasData' = hasData
         /\ data'.input_source_options = pdata.input_source_options
         /\ \A p \in Pairs :
               \/ SameEntry(data', pdata, p)
               \/ p \in DOMAIN optVal /\ Has(data', p) /\ Val(data', p) = optVal[p]]_vars

\* a cycle has failed at the listing and the cache still holds a device list,
\* an option table and values
C11_Witness ==
    /\ pollPc = "idle"
    /\ ~last_update_success
    /\ last_exception = "err"
    /\ data.monitors # {}
    /\ data.input_source_options # EmptyDict
    /\ \E p \in Pairs : Has(data, p)

\* the step in which a transport write attempt of the worker ends
AttemptEnds == wPc = "post" /\ (wPc' # "post" \/ sent' # sent)

\* C12: when a transport write attempt ends, the worker goes on holding the lock
\* through the settle delay, so that no read of a poll cycle starts before the
\* delay is over.
C12_SettleAfterEveryAttempt ==
    [][AttemptEnds => wPc' = "sleep" /\ write_lock' = "worker" /\ ~ReadInFlight']_vars

\* the step in which a control read of a cycle ends and another request of the
\* same cycle follows
ReadEndsMidCycle == pollPc = "ctrl" /\ pollPc' \in {"ctrl", "opts"} /\ (ci' # ci \/ pollPc' # pollPc)

\* C13: the poller gives the lock back after each control read, so that a worker
\* waiting with a pending request gets the lock before the cycle's next read.
C13_TokenPerRead ==
    [][(ReadEndsMidCycle /\ wPc = "lock") => write_lock' # "poll"]_vars

\* the ids of the requests in the queue, held by the worker waiting for the
\* lock, and handed to the transport
IdsQueued == {write_queue[i].id : i \in DOMAIN write_queue}

IdsHeld == IF wPc = "lock" THEN {wreq.id} ELSE {}

IdsSent == {sent[i] : i \in DOMAIN sent}

\* C14: every accepted request is in exactly one place: in the queue, with the
\* worker that waits for the lock, or handed to the transport, and there once;
\* a request whose write failed is in the queue no more.
C14_AttemptedOnce ==
    /\ Cardinality(IdsQueued) = Len(write_queue)
    /\ Cardinality(IdsSent) = Len(sent)
    /\ IdsQueued \cap IdsHeld = {}
    /\ IdsQueued \cap IdsSent = {}
    /\ IdsHeld \cap IdsSent = {}
    /\ IdsQueued \cup IdsHeld \cup IdsSent = 1..nWrites
    /\ nDone <= Len(sent)

\* two requests were attempted, one of them failed, and the worker is idle
C14_Witness ==
    /\ Len(sent) = 2
    /\ nDone = 2
    /\ wfailed # EmptyDict
    /\ wPc = "get"
    /\ write_queue = <<>>

\* C15: every accepted write request is in the end handed to the transport,
\* whatever writes and poll cycles fail on the way: again and again all the
\* requests accepted so far have been handed over (one handed over stays so).
C15_EveryRequestAttempted == []<>(IdsSent = 1..nWrites)

\* the second request was handed to the transport after the first write and a
\* poll cycle had failed
C15_Witness ==
    /\ 2 \in IdsSent
    /\ wfailed # EmptyDict
    /\ ~last_update_success

\* C16: a cycle that is over, failed or not, holds no lock and waits for none,
\* so that the next cycle can start; whoever holds the lock is a task that is
\* about to release it, and a free lock with waiters has its first waiter ready
\* to take it: no later cycle and no write is shut out.
C16_FailedCycleBlocksNothing ==
    /\ pollPc = "idle" =>
          /\ write_lock # "poll"
          /\ \A i \in DOMAIN lock_waiters : lock_waiters[i] # "poll"
    /\ write_lock = "poll" => pollPc \in {"monitors", "opts", "ctrl", "return"}
    /\ write_lock = "worker" => wPc \in {"post", "sleep"}
    /\ (write_lock = "none" /\ lock_waiters # <<>>) =>
          IF Head(lock_waiters) = "poll" THEN pollPc = "lock" ELSE wPc = "lock"

\* after a cycle that failed, the next cycle has the lock and is about to return
\* the values it read
C16_Witness ==
    /\ ~last_update_success
    /\ last_exception = "None"
    /\ pollPc = "return"
    /\ write_lock = "poll"
    /\ readOk # EmptyDict

\* the step in which a write request is accepted
Accepts == nWrites' = nWrites + 1

\* C17: a cached control value changes only when a poll cycle returns, for a
\* pair the cycle read, or when a write request on the pair is accepted; the
\* steps of the write worker change none.
C17_OnlyPollAndRequestWrite ==
    [][\A p \in Pairs :
          ~SameEntry(data, data', p) =>
             \/ Returns /\ p \in DOMAIN readOk
             \/ Accepts /\ PairOf(Last(write_queue')) = p]_vars

\* C18: as long as the most recently completed cycle is a failed one, the
\* status observers see carries that cycle's error.
C18_FailedStatusHasError ==
    ~last_update_success => last_exception = "err"

\* C19: a number entity can take a write request in every state, whoever holds
\* the lock and however many requests wait, and a request that is accepted is
\* put at the end of the queue, which keeps all those before it.
C19_NeverRejected ==
    /\ []((numberEntities # {} /\ nWrites < MaxWrites) => ENABLED SetNativeValue)
    /\ [][Accepts => /\ Len(write_queue') = Len(write_queue) + 1
                     /\ SubSeq(write_queue', 1, Len(write_queue)) = write_queue
                     /\ Last(write_queue').id = nWrites']_vars

\* two requests wait in the queue while a poll cycle holds the lock
C19_Witness ==
    /\ Len(write_queue) = 2
    /\ write_lock = "poll"
    /\ pollPc = "ctrl"

\* C20: in every state the cached value of an entity, the current option and
\* the sync status can be read at once, whoever holds the lock.
C20_ReadsNeverWait ==
    /\ numberEntities # {} => ENABLED ReadValue
    /\ selectEntities # {} => ENABLED ReadOption
    /\ ENABLED ReadStatus

\* entities exist, a write is in its settle delay and a poll cycle waits for the
\* lock
C20_Witness ==
    /\ numberEntities # {}
    /\ selectEntities # {}
    /\ wPc = "sleep"
    /\ write_lock = "worker"
    /\ pollPc = "lock"
    /\ Len(NativeValue(data, wreq.control, wreq.mon)) = 1

\* C21: a monitor that is in the coordinator's list of monitors stays in it,
\* whatever a later cycle's listing answers.
C21_MonitorsNeverDropped ==
    [][data.monitors \subseteq data'.monitors]_vars

\* C22: the option table the cache holds for a monitor stays what it is,
\* whatever a later cycle's option fetch answers.
C22_OptionTableFixed ==
    [][\A m \in DOMAIN data.input_source_options :
          /\ m \in DOMAIN data'.input_source_options
          /\ data'.input_source_options[m] = data.input_source_options[m]]_vars

\* the option table the cache holds for a monitor
TableOf(d, mon) ==
    IF mon \in DOMAIN d.input_source_options THEN d.input_source_options[mon] ELSE TableEmpty

\* the input_source pair of a monitor
InputOf(mon) == <<"input_source", mon>>

\* C23: for every label of a monitor's option table, the handler finds the key
\* of the label, and the cache with the key's code put in shows the label; a
\* select request that is accepted queues a code of the table and the label of
\* that code shows at once; when the write failed and a cycle read another code
\* back, the label shown after the cycle is the label of the code read.
C23_SelectShowsLabel ==
    /\ [](\A mon \in DOMAIN data.input_source_options :
            \A key \in DOMAIN TableOf(data, mon) :
               LET L == TableOf(data, mon)[key]
                   k == OptionKey(data, mon, L)
               IN /\ k = <<key>>
                  /\ CurrentOption(OptimisticUpdate(data, "input_source", mon, ParseHex(key)),
                                   mon) = <<L>>)
    /\ [][/\ (Accepts /\ Last(write_queue').control = "input_source") =>
                LET r == Last(write_queue')
                    key == Fmt02x(r.value)
                IN /\ key \in DOMAIN TableOf(data, r.mon)
                   /\ ParseHex(key) = r.value
                   /\ CurrentOption(data', r.mon) = <<TableOf(data, r.mon)[key]>>
                   /\ sent' = sent
          /\ Returns =>
                \A mon \in selectEntities :
                   (/\ InputOf(mon) \in DOMAIN wfailed \cap DOMAIN readOk
                    /\ readOk[InputOf(mon)] # wfailed[InputOf(mon)]
                    /\ Fmt02x(readOk[InputOf(mon)]) \in DOMAIN TableOf(pdata, mon)) =>
                      CurrentOption(data', mon)
                         = <<TableOf(pdata, mon)[Fmt02x(readOk[InputOf(mon)])]>>]_vars

\* DisplayPort was selected and shows, its request is still in the queue and
\* the monitor still holds the HDMI1 code
C23_Witness ==
    /\ write_queue # <<>>
    /\ Last(write_queue).control = "input_source"
    /\ CurrentOption(data, Last(write_queue).mon) = <<"DisplayPort">>
    /\ Last(write_queue).value = 17
    /\ device[InputOf(Last(write_queue).mon)] = 15
    /\ sent = <<>>

\* the step in which a finished brightdock cycle hands its data to the coordinator
DDCReturns == ddc.pc = "return" /\ ddc'.pc = "idle"

\* C24: in the brightdock integration a pair whose read failed in a cycle has,
\* when the cycle returns, the value the cache held for it before.
C24_DDCFailedReadKeepsValue ==
    [][DDCReturns =>
         \A p \in ddc.failed :
            DDCValue(ddc.data, p) # <<>> =>
               DDCValue(ddc'.data, p) = DDCValue(ddc.data, p)]_vars

\* C25: in the brightdock integration no POST of an entity is in flight while a
\* GET of a poll cycle is.
C25_DDCNoWriteDuringRead ==
    ~(DDCReadInFlight /\ DDCWriteInFlight)

\* the labels of a monitor's cached option table
LabelsOf(d, mon) == {TableOf(d, mon)[k] : k \in DOMAIN TableOf(d, mon)}

\* the step of a logged call of async_select_option
SelectCalled == selLog' # selLog

\* C26: a call of async_select_option with a label that is not in the monitor's
\* option table enqueues nothing, changes no cached value and asks for no refresh.
C26_UnknownOptionNoEffect ==
    [][(SelectCalled /\ selLog'.option \notin LabelsOf(data, selLog'.mon)) =>
          /\ write_queue' = write_queue
          /\ nWrites' = nWrites
          /\ data' = data
          /\ ~selLog'.refresh]_vars

\* a label of no table was selected for a monitor whose table has labels; the
\* queue is empty and the cache shows what the monitor holds
C26_Witness ==
    /\ selLog.option = "VGA"
    /\ selLog.mon \in selectEntities
    /\ LabelsOf(data, selLog.mon) # {}
    /\ write_queue = <<>>
    /\ NativeValue(data, "input_source", selLog.mon) = <<15>>

\* C27: a cycle whose listing succeeded returns as a success with no last error,
\* whatever reads and fetches failed in it, and leaves the cached value of every
\* pair whose read failed as it is.
C27_PartialFailureIsSuccess ==
    [][Returns =>
         /\ last_update_success'
         /\ last_exception' = "None"
         /\ \A p \in readFail : SameEntry(data', data, p)]_vars

\* the one write request made so far was on the pair, its transport write
\* succeeded and the device holds its value
WrittenOnce(p) == nWrites = 1 /\ nDone = 1 /\ wfailed = EmptyDict /\ device[p] # InitialValue(p[1])

\* C28: after the only write request on (d, c) was accepted and its transport
\* write succeeded, the device holding its value v, the cached value of (d, c)
\* is v.
C28_AcceptedWriteSticks ==
    \A p \in Pairs : WrittenOnce(p) => Has(data, p) /\ Val(data, p) = device[p]

\* a transport operation fails: the listing, which may also miss a monitor, a
\* read, or a write that does not reach the monitor
TransportFails ==
    \/ PollMonitorsFail
    \/ pollPc = "monitors" /\ pdata'.monitors # Monitors
    \/ PollReadFail
    \/ WorkerPostFail
    \/ WorkerPostOk /\ device' # [device EXCEPT ![PairOf(wreq)] = wreq.value]

\* every pair is cached with the value the device holds
Reconciled ==
    \A p \in ControlSet \X Monitors : Has(data, p) /\ Val(data, p) = device[p]

\* C29: write requests stop (there are MaxWrites of them); if from some point on
\* no transport operation fails, the cache of every pair becomes the value the
\* device holds, and stays so.
C29_EventuallyReconciled == <>[][~TransportFails]_vars => <>[]Reconciled

\* a request was written to the device and the cache holds the device's values
C29_Witness ==
    /\ Reconciled
    /\ nWrites = MaxWrites
    /\ nDone = MaxWrites
    /\ nCycles = MaxCycles
    /\ \E p \in ControlSet \X Monitors : device[p] # InitialValue(p[1])

\* a step of a running cycle that is not its completion
CycleRuns == pollPc # "idle" /\ ~Returns

\* C30: no step of a running cycle but its completion changes the cache: only a
\* write request does while the cycle runs, and a cycle that fails leaves the
\* cache as it is.
C30_PublishedAtCompletion ==
    [][/\ (CycleRuns /\ ~Accepts) => data' = data
       /\ ListingFails => data' = data]_vars

\* a running cycle has read a value that differs from the one the cache shows
C30_Witness ==
    /\ hasData
    /\ pollPc \in {"ctrl", "opts", "return"}
    /\ \E p \in DOMAIN readOk : Has(data, p) /\ Val(data, p) # readOk[p]

\* the step in which the worker starts the transport write of a request
WriteStarts == Len(sent') = Len(sent) + 1

\* C31: between enqueue_write and the optimistic update of a request the worker
\* starts no transport write and no poll cycle completes; when the worker starts
\* the write of a request, the cache was set to its value.
C31_EnqueueAndShowAtomic ==
    [][/\ hreq # NoReq => ~WriteStarts /\ ~Returns /\ wPc' = wPc /\ pollPc' = pollPc
       /\ WriteStarts => Last(sent') # hreq.id /\ Last(sent') \in 1..nWrites]_vars

\* a request is enqueued and not yet shown while a cycle is reading and the
\* worker waits on the queue
C31_Witness ==
    /\ hreq # NoReq
    /\ Last(write_queue) = hreq
    /\ pollPc = "ctrl"
    /\ wPc = "get"
    /\ Has(data, PairOf(hreq)) /\ Val(data, PairOf(hreq)) # hreq.value

\* no poll cycle is running and the worker waits on an empty queue
Quiet == pollPc = "idle" /\ wPc = "get" /\ write_queue = <<>>

\* C32: the lock is given back after a failed write, after a write and its
\* settle delay, and after a cycle that succeeded or failed: whenever no cycle
\* is running and the worker waits on an empty queue, the lock is free and
\* nobody waits for it.
C32_TokenNeverLeaked == Quiet => write_lock = "none" /\ lock_waiters = <<>>

\* all is quiet after a write that failed, a write that succeeded and a cycle
\* that failed
C32_Witness ==
    /\ Quiet
    /\ nDone = 2
    /\ wfailed # EmptyDict
    /\ \E p \in Pairs : device[p] # InitialValue(p[1])
    /\ ~last_update_success
    /\ hasData

\* C33: on the node at most one ddcutil command runs at any time, whichever of
\* the HTTP handlers, ws_listener and poll_loop started it.
C33_OneBusCommand == BusCommands(node) <= 1

\* the step in which a write_vcp of ws_listener sets the monitor
WsWrites == node.wsPc = "write" /\ node'.wsPc = "listen"

\* C34: once the monitor holds the value the user set, no write of ws_listener
\* takes it away again.
C34_UserValueStays ==
    [][(WsWrites /\ node.nSets > 0 /\ node.monitor = UserValue) =>
          node'.monitor = UserValue]_vars

====
